---- MODULE Spec2Model ----
(***************************************************************************)
(* Model of src/App.tsx: parseSustainabilityResult, the line scanner that  *)
(* turns the plain-text AI response into a ParsedResult record.            *)
(*                                                                         *)
(* A JavaScript string is modelled as a sequence of atoms.  An atom is one *)
(* character (" ", "\n", "-", ":") or a run of characters that the inputs  *)
(* of the model never break up (a word, a glyph, the wording of a section  *)
(* header without its colon).  Every string operation of the code is       *)
(* computed on these sequences: trim, split, startsWith, endsWith,         *)
(* substring and slice.                                                    *)
(***************************************************************************)
EXTENDS Integers, Sequences, FiniteSets, TLC

VARIABLES rawText, pc, lines, i, currentSection, ingredientDetailName, result, ret

\* the outcome of an earlier call that the caller still holds
VARIABLES kept

\* the parameter and the locals of parseSustainabilityResult, and what it returns
parserVars == <<rawText, pc, lines, i, currentSection, ingredientDetailName, result, ret>>

\* the state of the App component (lines 114-126), with the position of
\* handleSubmit, the inputs its request was made with and the response it got
VARIABLES productInput, imageFile, loading, resultText, parsedResult,
          irrelevantInputMessage, error, showSections, submitPc, request, response

\* the preview of the image (line 116): previewUrl is 0 for null or the number
\* of an object URL; created counts the URLs URL.createObjectURL has made,
\* and revoked the calls of URL.revokeObjectURL on each of them
VARIABLES previewUrl, created, revoked

\* whether the component is mounted, the calls of checkSustainability that
\* have not settled, and the handler or continuation that ran last
VARIABLES mounted, outstanding, lastEvent

previewVars == <<previewUrl, created, revoked>>

uiVars == <<productInput, imageFile, loading, resultText, parsedResult,
            irrelevantInputMessage, error, showSections, submitPc, request, response,
            previewVars, mounted, outstanding, lastEvent>>

\* generatePdfReport (lines 251-436): its position, the vertical cursor y in
\* half millimetres (line 393 adds lineHeight / 2), the page being written,
\* the texts placed so far, the index of the current forEach, the wrapped
\* lines being placed with the index into them, and the number of saves
VARIABLES pdfPc, y, page, placed, idx, splitText, sub, saved

pdfVars == <<pdfPc, y, page, placed, idx, splitText, sub, saved>>

\* what a call of parseSustainabilityResult cannot touch
outsideVars == <<kept, uiVars, pdfVars>>

vars == <<parserVars, outsideVars>>

----------------------------------------------------------------------------
(* Bounds of the model *)

\* greatest number of lines of a generated response text
MaxLines == 4

\* greatest number of lines of a text drawn from the pool with every header
MaxLinesWide == 3

\* greatest number of lines of a text that is parsed again and again
MaxLinesAgain == 2

----------------------------------------------------------------------------
(* JavaScript string primitives *)

\* the characters String.prototype.trim removes
WhiteSpace == {" ", "\t", "\n", "\r"}

NL == <<"\n">>

RECURSIVE TrimStart(_)
TrimStart(s) ==
  IF s # <<>> /\ Head(s) \in WhiteSpace THEN TrimStart(Tail(s)) ELSE s

RECURSIVE TrimEnd(_)
TrimEnd(s) ==
  IF s # <<>> /\ s[Len(s)] \in WhiteSpace THEN TrimEnd(SubSeq(s, 1, Len(s) - 1)) ELSE s

Trim(s) == TrimEnd(TrimStart(s))

StartsWith(s, p) == Len(p) <= Len(s) /\ SubSeq(s, 1, Len(p)) = p

EndsWith(s, p) == Len(p) <= Len(s) /\ SubSeq(s, Len(s) - Len(p) + 1, Len(s)) = p

\* s.substring(n)
Substring(s, n) == SubSeq(s, n + 1, Len(s))

\* s.slice(0, -1)
SliceDropLast(s) == SubSeq(s, 1, Len(s) - 1)

\* s.split(sep) for a one-character separator: always at least one piece
RECURSIVE Split(_, _)
Split(s, sep) ==
  IF \E k \in 1..Len(s) : s[k] = sep
  THEN LET k == CHOOSE k \in 1..Len(s) : s[k] = sep /\ \A j \in 1..(k - 1) : s[j] # sep
       IN <<SubSeq(s, 1, k - 1)>> \o Split(SubSeq(s, k + 1, Len(s)), sep)
  ELSE <<s>>

----------------------------------------------------------------------------
(* Literals of the program *)

RED_CROSS == "RED_CROSS"
ORANGE_CIRCLE == "ORANGE_CIRCLE"
GREEN_CHECK == "GREEN_CHECK"

Glyphs == {RED_CROSS, ORANGE_CIRCLE, GREEN_CHECK}

IRRELEVANT_INPUT_MESSAGE ==
  <<"Input not recognized as a product label.", "\n",
    "Please paste a product's ingredient list or upload a clear image of the ingredient label to run a sustainability check.", "\n",
    "For example: ingredients, material lists, or sustainability claims printed on packaging.">>

HdrOverallVerdict == <<"Overall Verdict", ":">>
HdrGreenwashingRisk == <<"Greenwashing Risk", ":">>
HdrClaimsFailed == <<"Claims that failed to meet expectations", ":">>
HdrWhyClaimsFailed == <<"Why these claims failed", ":">>
HdrIngredientsToNote == <<"Ingredients to note", ":">>
HdrMoreDetails == <<"More details", ":">>
HdrIngredientSpecificDetails == <<"Ingredient-specific details", ":">>
HdrImprovementSuggestions == <<"Improvement suggestions", ":">>

BULLET == <<"-", " ">>
COLON == <<":">>

\* the value of currentSection when no section is open
NoSection == "null"

\* the record of lines 34-45
EmptyResult ==
  [icon |-> <<>>,
   overallVerdict |-> <<>>,
   greenwashingRisk |-> <<>>,
   claimsFailed |-> <<>>,
   whyClaimsFailed |-> <<>>,
   ingredientsToNote |-> <<>>,
   moreDetails |-> <<>>,
   ingredientSpecificDetails |-> <<>>,
   improvementSuggestions |-> <<>>,
   groundingUrls |-> <<>>]

----------------------------------------------------------------------------
(* parseSustainabilityResult, src/App.tsx lines 29-110, piece by piece *)

\* mutant of IsIrrelevantText: the sentinel message is not recognised
IsIrrelevantTextEmptyOnly(text) == text = <<>>

\* line 30: !rawText || rawText.trim() === IRRELEVANT_INPUT_MESSAGE.trim()
IsIrrelevantText(text) ==
  text = <<>> \/ Trim(text) = Trim(IRRELEVANT_INPUT_MESSAGE)

\* line 53: the trimmed line starts with one of the three glyphs
IsIconLine(line) ==
  \/ StartsWith(line, <<RED_CROSS>>)
  \/ StartsWith(line, <<ORANGE_CIRCLE>>)
  \/ StartsWith(line, <<GREEN_CHECK>>)

\* mutant of IconToken: the whole line is stored
IconTokenWholeLine(line) == line

\* line 54: line.split(' ')[0]
IconToken(line) == Split(line, " ")[1]

\* mutant of NextLineValue: the value is stored untrimmed
NextLineValueRaw(ls, k) == ls[k + 1]

\* lines 56 and 59: lines[++i].trim(), k being the incremented index
NextLineValue(ls, k) == Trim(ls[k + 1])

\* mutant of HeaderSection: the two first list headers open the same section
HeaderSectionMixed(line) ==
  IF StartsWith(line, HdrClaimsFailed) THEN "claimsFailed"
  ELSE IF StartsWith(line, HdrWhyClaimsFailed) THEN "claimsFailed"
  ELSE IF StartsWith(line, HdrIngredientsToNote) THEN "ingredientsToNote"
  ELSE IF StartsWith(line, HdrMoreDetails) THEN "moreDetails"
  ELSE IF StartsWith(line, HdrIngredientSpecificDetails) THEN "ingredientSpecificDetails"
  ELSE IF StartsWith(line, HdrImprovementSuggestions) THEN "improvementSuggestions"
  ELSE "none"

\* lines 61-72: the section a list or text header opens, "none" for any other line
HeaderSection(line) ==
  IF StartsWith(line, HdrClaimsFailed) THEN "claimsFailed"
  ELSE IF StartsWith(line, HdrWhyClaimsFailed) THEN "whyClaimsFailed"
  ELSE IF StartsWith(line, HdrIngredientsToNote) THEN "ingredientsToNote"
  ELSE IF StartsWith(line, HdrMoreDetails) THEN "moreDetails"
  ELSE IF StartsWith(line, HdrIngredientSpecificDetails) THEN "ingredientSpecificDetails"
  ELSE IF StartsWith(line, HdrImprovementSuggestions) THEN "improvementSuggestions"
  ELSE "none"

\* mutant of BulletText: the text after "- " is stored untrimmed
BulletTextRaw(line) == Substring(line, 2)

\* lines 75, 77, 79, 95: line.substring(2).trim()
BulletText(line) == Trim(Substring(line, 2))

\* mutant of AppendText: the line is appended without its newline
AppendTextNoNewline(text, line) == text \o line

\* lines 81 and 91: text += line + '\n'
AppendText(text, line) == text \o line \o NL

\* mutant of IngredientLine: an empty name does not deactivate the open entry
IngredientLineKeepName(name, res, line) ==
  IF EndsWith(line, COLON)
  THEN LET n == Trim(SliceDropLast(line))
       IN IF n # <<>>
          THEN [name |-> n,
                result |-> [res EXCEPT !.ingredientSpecificDetails =
                              Append(@, [name |-> n, explanation |-> <<>>])]]
          ELSE [name |-> name, result |-> res]
  ELSE IF name # <<>> /\ line # <<>>
  THEN LET lastIndex == Len(res.ingredientSpecificDetails) - 1
       IN IF lastIndex >= 0
          THEN [name |-> name,
                result |-> [res EXCEPT !.ingredientSpecificDetails[lastIndex + 1].explanation =
                              AppendText(@, line)]]
          ELSE [name |-> name, result |-> res]
  ELSE [name |-> name, result |-> res]

\* lines 83-93: a line read while currentSection is ingredientSpecificDetails
IngredientLine(name, res, line) ==
  IF EndsWith(line, COLON)
  THEN LET n == Trim(SliceDropLast(line))
       IN IF n # <<>>
          THEN [name |-> n,
                result |-> [res EXCEPT !.ingredientSpecificDetails =
                              Append(@, [name |-> n, explanation |-> <<>>])]]
          ELSE [name |-> n, result |-> res]
  ELSE IF name # <<>> /\ line # <<>>
  THEN LET lastIndex == Len(res.ingredientSpecificDetails) - 1
       IN IF lastIndex >= 0
          THEN [name |-> name,
                result |-> [res EXCEPT !.ingredientSpecificDetails[lastIndex + 1].explanation =
                              AppendText(@, line)]]
          ELSE [name |-> name, result |-> res]
  ELSE [name |-> name, result |-> res]

\* mutant of SectionContent: a suggestion is pushed to the wrong list
SectionContentWrongList(section, name, res, line) ==
  IF section = "claimsFailed" /\ StartsWith(line, BULLET)
  THEN [name |-> name, result |-> [res EXCEPT !.claimsFailed = Append(@, BulletText(line))]]
  ELSE IF section = "whyClaimsFailed" /\ StartsWith(line, BULLET)
  THEN [name |-> name, result |-> [res EXCEPT !.whyClaimsFailed = Append(@, BulletText(line))]]
  ELSE IF section = "ingredientsToNote" /\ StartsWith(line, BULLET)
  THEN [name |-> name, result |-> [res EXCEPT !.ingredientsToNote = Append(@, BulletText(line))]]
  ELSE IF section = "moreDetails" /\ line # <<>>
  THEN [name |-> name, result |-> [res EXCEPT !.moreDetails = AppendText(@, line)]]
  ELSE IF section = "ingredientSpecificDetails"
  THEN IngredientLine(name, res, line)
  ELSE IF section = "improvementSuggestions" /\ StartsWith(line, BULLET)
  THEN [name |-> name, result |-> [res EXCEPT !.groundingUrls = Append(@, BulletText(line))]]
  ELSE [name |-> name, result |-> res]

\* lines 74-96: a line that is no icon line and no header, read in an open section
SectionContent(section, name, res, line) ==
  IF section = "claimsFailed" /\ StartsWith(line, BULLET)
  THEN [name |-> name, result |-> [res EXCEPT !.claimsFailed = Append(@, BulletText(line))]]
  ELSE IF section = "whyClaimsFailed" /\ StartsWith(line, BULLET)
  THEN [name |-> name, result |-> [res EXCEPT !.whyClaimsFailed = Append(@, BulletText(line))]]
  ELSE IF section = "ingredientsToNote" /\ StartsWith(line, BULLET)
  THEN [name |-> name, result |-> [res EXCEPT !.ingredientsToNote = Append(@, BulletText(line))]]
  ELSE IF section = "moreDetails" /\ line # <<>>
  THEN [name |-> name, result |-> [res EXCEPT !.moreDetails = AppendText(@, line)]]
  ELSE IF section = "ingredientSpecificDetails"
  THEN IngredientLine(name, res, line)
  ELSE IF section = "improvementSuggestions" /\ StartsWith(line, BULLET)
  THEN [name |-> name, result |-> [res EXCEPT !.improvementSuggestions = Append(@, BulletText(line))]]
  ELSE [name |-> name, result |-> res]

\* mutant of CleanUp: the explanations are returned untrimmed
CleanUpDetailsOnly(res) ==
  [res EXCEPT !.moreDetails = IF @ # <<>> THEN Trim(@) ELSE @]

\* lines 100-107: the multi-line fields are trimmed
CleanUp(res) ==
  [res EXCEPT
     !.moreDetails = IF @ # <<>> THEN Trim(@) ELSE @,
     !.ingredientSpecificDetails =
        [k \in 1..Len(@) |-> [name |-> @[k].name, explanation |-> Trim(@[k].explanation)]]]

----------------------------------------------------------------------------
(* Response texts the model parses *)

RECURSIVE JoinLines(_)
JoinLines(ls) ==
  IF ls = <<>> THEN <<>>
  ELSE IF Len(ls) = 1 THEN ls[1]
  ELSE ls[1] \o NL \o JoinLines(Tail(ls))

\* every text of at most n lines taken from pool
TextsOf(pool, n) ==
  {JoinLines(f) : f \in UNION {[1..k -> pool] : k \in 0..n}}

LnBlank == <<" ">>
LnIcon == <<RED_CROSS, " ", "Sustainability">>
LnIconOther == <<ORANGE_CIRCLE, " ", "Sustainability">>
LnIconGlued == <<GREEN_CHECK, "Sustainability">>
LnVerdictValue == <<" ", "Low", " ", "Risk", " ">>
LnRiskValue == <<"20%">>
LnBulletA == <<"-", " ", "A">>
LnBulletB == <<" ", "-", " ", " ", "B", " ">>
LnPlain == <<"A">>
LnIngredient == <<"Paraben", ":">>
LnNoName == <<":">>
LnExplanation == <<"Synthetic">>
LnExplanationMore == <<" ", "More">>

\* the sentinel message, the message with white space around it, and the
\* message followed by one more line
SentinelTexts ==
  {IRRELEVANT_INPUT_MESSAGE,
   <<" ">> \o IRRELEVANT_INPUT_MESSAGE \o NL,
   IRRELEVANT_INPUT_MESSAGE \o NL \o HdrOverallVerdict}

\* icon lines, the two single-value headers and their values
VerdictPool ==
  {LnBlank, LnIcon, LnIconOther, LnIconGlued, HdrOverallVerdict, HdrGreenwashingRisk,
   LnVerdictValue, LnRiskValue}

\* the four bulleted sections
ListPool ==
  {HdrClaimsFailed, HdrWhyClaimsFailed, HdrIngredientsToNote, HdrImprovementSuggestions,
   LnBulletA, LnBulletB, LnPlain, LnBlank}

\* the two multi-line sections
DetailsPool ==
  {HdrMoreDetails, HdrIngredientSpecificDetails, LnIngredient, LnNoName,
   LnExplanation, LnExplanationMore, LnIcon, LnBlank}

\* every header, with one line of each other kind
WidePool ==
  {HdrOverallVerdict, HdrGreenwashingRisk, HdrClaimsFailed, HdrWhyClaimsFailed,
   HdrIngredientsToNote, HdrMoreDetails, HdrIngredientSpecificDetails,
   HdrImprovementSuggestions, LnIcon, LnBulletA, LnIngredient, LnExplanation, LnBlank}

----------------------------------------------------------------------------
(* The state machine: one call of parseSustainabilityResult on rawText *)

\* the object URLs a run creates at most
MaxUrls == 3

\* the calls of checkSustainability a run is followed up to
MaxOutstanding == 2

\* a nullable value: null, or the value v
Null(v) == [some |-> FALSE, value |-> v]

Some(v) == [some |-> TRUE, value |-> v]

NullText == Null(<<>>)

NullRecord == Null(EmptyResult)

\* lines 123-126: the four section toggles, all closed
AllCollapsed ==
  [moreDetails |-> FALSE, ingredientSpecificDetails |-> FALSE,
   improvementSuggestions |-> FALSE, groundingUrls |-> FALSE]

NoRequest == [productInput |-> <<>>, imageFile |-> "null"]

\* no response has arrived for the submission
NoResponse == Null([text |-> <<>>, groundingUrls |-> <<>>])

\* lines 114-126: the state of the component when it is mounted with the given
\* input text and image
UiInit(text, image) ==
  /\ productInput = text
  /\ imageFile = image
  /\ loading = FALSE
  /\ resultText = NullText
  /\ parsedResult = NullRecord
  /\ irrelevantInputMessage = NullText
  /\ error = NullText
  /\ showSections = AllCollapsed
  /\ submitPc = "idle"
  /\ request = NoRequest
  /\ response = NoResponse
  /\ previewUrl = 0
  /\ created = 0
  /\ revoked = [u \in 1..MaxUrls |-> 0]
  /\ mounted = TRUE
  /\ outstanding = 0
  /\ lastEvent = "none"

\* no report is being generated
PdfIdle ==
  /\ pdfPc = "idle"
  /\ y = 0
  /\ page = 0
  /\ placed = <<>>
  /\ idx = 0
  /\ splitText = <<>>
  /\ sub = 0
  /\ saved = 0

\* the caller holds no record yet
NothingKept == [held |-> FALSE, text |-> <<>>, outcome |-> [kind |-> "none", value |-> EmptyResult]]

InitOn(texts) ==
  /\ rawText \in texts
  /\ pc = "entry"
  /\ lines = <<>>
  /\ i = 0
  /\ currentSection = NoSection
  /\ ingredientDetailName = <<>>
  /\ result = EmptyResult
  /\ ret = "pending"
  /\ kept = NothingKept
  /\ UiInit(<<>>, "null")
  /\ PdfIdle

Init == InitOn(TextsOf(VerdictPool, MaxLines) \cup SentinelTexts)

InitList == InitOn(TextsOf(ListPool, MaxLines) \cup SentinelTexts)

InitDetails == InitOn(TextsOf(DetailsPool, MaxLines) \cup SentinelTexts)

InitWide == InitOn(TextsOf(WidePool, MaxLinesWide) \cup SentinelTexts)

\* mutant of Enter: the cursor and the entry name outlive the call
EnterKeepsCursor ==
  /\ pc = "entry"
  /\ IF IsIrrelevantText(rawText)
     THEN /\ pc' = "done"
          /\ ret' = "null"
          /\ UNCHANGED <<lines, i, currentSection, ingredientDetailName, result>>
     ELSE /\ pc' = "loop"
          /\ result' = EmptyResult
          /\ lines' = Split(rawText, "\n")
          /\ i' = 0
          /\ UNCHANGED <<ret, currentSection, ingredientDetailName>>
  /\ UNCHANGED rawText
  /\ UNCHANGED outsideVars

\* lines 30-48: the early return, or the set-up of the scan
Enter ==
  /\ pc = "entry"
  /\ IF IsIrrelevantText(rawText)
     THEN /\ pc' = "done"
          /\ ret' = "null"
          /\ UNCHANGED <<lines, i, currentSection, ingredientDetailName, result>>
     ELSE /\ pc' = "loop"
          /\ result' = EmptyResult
          /\ lines' = Split(rawText, "\n")
          /\ currentSection' = NoSection
          /\ ingredientDetailName' = <<>>
          /\ i' = 0
          /\ UNCHANGED ret
  /\ UNCHANGED rawText
  /\ UNCHANGED outsideVars

\* mutant of ConsumeValue: the open section is not closed
ConsumeValueKeepSection(field) ==
  IF i + 1 < Len(lines)
  THEN /\ result' = [result EXCEPT ![field] = NextLineValue(lines, i + 1)]
       /\ i' = i + 2
       /\ UNCHANGED <<pc, currentSection, ingredientDetailName>>
  ELSE /\ pc' = "threw"
       /\ i' = i + 1
       /\ UNCHANGED <<result, currentSection, ingredientDetailName>>

\* mutant of ConsumeValue: the loop goes on at the line of the value
ConsumeValueRescans(field) ==
  IF i + 1 < Len(lines)
  THEN /\ result' = [result EXCEPT ![field] = NextLineValue(lines, i + 1)]
       /\ currentSection' = NoSection
       /\ i' = i + 1
       /\ UNCHANGED <<pc, ingredientDetailName>>
  ELSE /\ pc' = "threw"
       /\ i' = i + 1
       /\ UNCHANGED <<result, currentSection, ingredientDetailName>>

\* lines 56 and 59: a single-value header consumes the next line; lines[++i] is
\* undefined when the header is the last line, and .trim() then throws a TypeError
ConsumeValue(field) ==
  IF i + 1 < Len(lines)
  THEN /\ result' = [result EXCEPT ![field] = NextLineValue(lines, i + 1)]
       /\ currentSection' = NoSection
       /\ i' = i + 2
       /\ UNCHANGED <<pc, ingredientDetailName>>
  ELSE /\ pc' = "threw"
       /\ i' = i + 1
       /\ UNCHANGED <<result, currentSection, ingredientDetailName>>

\* lines 50-98: one iteration of the for loop
ScanLine ==
  /\ pc = "loop"
  /\ i < Len(lines)
  /\ LET line == Trim(lines[i + 1])
     IN IF IsIconLine(line)
        THEN /\ result' = [result EXCEPT !.icon = IconToken(line)]
             /\ i' = i + 1
             /\ UNCHANGED <<pc, currentSection, ingredientDetailName>>
        ELSE IF StartsWith(line, HdrOverallVerdict)
        THEN ConsumeValue("overallVerdict")
        ELSE IF StartsWith(line, HdrGreenwashingRisk)
        THEN ConsumeValue("greenwashingRisk")
        ELSE IF HeaderSection(line) # "none"
        THEN /\ currentSection' = HeaderSection(line)
             /\ i' = i + 1
             /\ UNCHANGED <<pc, result, ingredientDetailName>>
        ELSE IF currentSection # NoSection
        THEN LET s == SectionContent(currentSection, ingredientDetailName, result, line)
             IN /\ result' = s.result
                /\ ingredientDetailName' = s.name
                /\ i' = i + 1
                /\ UNCHANGED <<pc, currentSection>>
        ELSE /\ i' = i + 1
             /\ UNCHANGED <<pc, result, currentSection, ingredientDetailName>>
  /\ UNCHANGED <<rawText, lines, ret>>
  /\ UNCHANGED outsideVars

\* lines 100-109: the loop has ended; clean up and return the record
Return ==
  /\ pc = "loop"
  /\ i >= Len(lines)
  /\ result' = CleanUp(result)
  /\ ret' = "record"
  /\ pc' = "done"
  /\ UNCHANGED <<rawText, lines, i, currentSection, ingredientDetailName>>
  /\ UNCHANGED outsideVars

Next == Enter \/ ScanLine \/ Return

Spec == Init /\ [][Next]_vars

SpecList == InitList /\ [][Next]_vars

\* the pass as a whole: the function runs to its end without waiting for
\* anything, so a step that can be taken is taken
MaxLinesPass == 3

PassPool ==
  {LnBlank, LnIcon, HdrOverallVerdict, HdrGreenwashingRisk, HdrClaimsFailed, LnBulletA}

InitPass == InitOn(TextsOf(PassPool, MaxLinesPass))

SpecPass == InitPass /\ [][Next]_vars /\ WF_vars(Next)

SpecDetails == InitDetails /\ [][Next]_vars

SpecWide == InitWide /\ [][Next]_vars

----------------------------------------------------------------------------
(* Repeated calls: the caller parses one text after another and may hold   *)
(* on to a record it was given                                             *)

\* a section with named entries and explanation lines
AgainPool == {HdrIngredientSpecificDetails, LnIngredient, LnExplanation}

AgainTexts == TextsOf(AgainPool, MaxLinesAgain) \cup {IRRELEVANT_INPUT_MESSAGE}

\* what the call that has ended gave its caller
CallOutcome ==
  IF pc = "threw" THEN [kind |-> "threw", value |-> EmptyResult]
  ELSE IF ret = "null" THEN [kind |-> "null", value |-> EmptyResult]
  ELSE [kind |-> "record", value |-> result]

\* lines 235-241: the caller takes what the call returned, keeps it or drops
\* it, and later calls the parser on another text; the variables of the ended
\* call keep whatever it left in them
CallAgain ==
  /\ pc \in {"done", "threw"}
  /\ \E text \in AgainTexts, keep \in BOOLEAN :
       /\ rawText' = text
       /\ kept' = IF keep
                  THEN [held |-> TRUE, text |-> rawText, outcome |-> CallOutcome]
                  ELSE kept
  /\ pc' = "entry"
  /\ ret' = "pending"
  /\ UNCHANGED <<lines, i, currentSection, ingredientDetailName, result>>
  /\ UNCHANGED <<uiVars, pdfVars>>

InitAgain == InitOn(AgainTexts)

NextAgain == Enter \/ ScanLine \/ Return \/ CallAgain

SpecAgain == InitAgain /\ [][NextAgain]_vars

----------------------------------------------------------------------------
(* handleSubmit, src/App.tsx lines 213-249.  It runs up to the await of    *)
(* checkSustainability, and resumes when the request resolves or rejects;  *)
(* the parse of the response text is the state machine above, run to its   *)
(* end before anything else happens.                                       *)

ErrMissingInput == <<"Please provide either text input or an image.">>

ErrFailed == <<"Failed to check sustainability: ">>

\* what the user typed, and the image chosen
InputTexts == {<<>>, <<"Water">>, <<" ">>}

ImageFiles == {"label.png", "other.png"}

\* a response in the format asked for, with its icon line and its verdict
GoodResponseText ==
  JoinLines(<<LnIcon, HdrOverallVerdict, <<"Low", " ", "Risk">>, HdrClaimsFailed, LnBulletA>>)

\* a response cut off after the header of the verdict: the parse fills in the
\* icon and a claim and throws on the header (line 56)
CutOffResponseText ==
  JoinLines(<<LnIcon, HdrClaimsFailed, LnBulletA, HdrOverallVerdict>>)

\* the texts checkSustainability resolves with; it trims the text of the model
\* (geminiService.ts line 522), which leaves the empty text for a response of
\* white space only
ResponseTexts ==
  {<<>>, IRRELEVANT_INPUT_MESSAGE, GoodResponseText, CutOffResponseText, <<"Sorry">>}

UrlLists == {<<>>, <<[uri |-> <<"https://a">>, title |-> <<"A">>]>>}

\* line 438: isFormValid
IsFormValid == Trim(productInput) # <<>> \/ imageFile # "null"

\* lines 134-136, 157-159, 179-181, 195-197: URL.revokeObjectURL on the
\* preview, when there is one
Revoke(rv, url) == IF url = 0 THEN rv ELSE [rv EXCEPT ![url] = @ + 1]

\* mutant of CleanupPreview: the effect has no cleanup
CleanupPreviewNothing(before, after, rv) == rv

\* lines 131-138: the cleanup of the effect on [previewUrl], run by React
\* with the previewUrl of the render before when the handler has changed it,
\* and with after = 0 when the component is unmounted
CleanupPreview(before, after, rv) ==
  IF before # after THEN Revoke(rv, before) ELSE rv

\* the sections that can be opened, with what they show
Sections == {"moreDetails", "ingredientSpecificDetails", "improvementSuggestions",
             "groundingUrls"}

\* no handler runs in the middle of the parse of a response, and none after
\* the component is gone
CanHandle == mounted /\ submitPc # "parsing"

\* mutant of SubmitStart: the button is enabled while a request is loading
SubmitStartWhileLoading ==
  /\ CanHandle
  /\ IsFormValid
  /\ outstanding < MaxOutstanding
  /\ resultText' = NullText
  /\ parsedResult' = NullRecord
  /\ irrelevantInputMessage' = NullText
  /\ showSections' = AllCollapsed
  /\ IF productInput = <<>> /\ imageFile = "null"
     THEN /\ error' = Some(ErrMissingInput)
          /\ loading' = FALSE
          /\ lastEvent' = "missingInput"
          /\ UNCHANGED <<submitPc, request, response, outstanding>>
     ELSE /\ error' = NullText
          /\ loading' = TRUE
          /\ submitPc' = "awaiting"
          /\ request' = [productInput |-> productInput, imageFile |-> imageFile]
          /\ response' = NoResponse
          /\ outstanding' = outstanding + 1
          /\ lastEvent' = "submit"
  /\ UNCHANGED <<productInput, imageFile, previewVars, mounted, kept, pdfVars, parserVars>>

\* mutant of SubmitStart: the error of the submission before is left standing
SubmitStartKeepsError ==
  /\ CanHandle
  /\ ~loading
  /\ IsFormValid
  /\ outstanding < MaxOutstanding
  /\ resultText' = NullText
  /\ parsedResult' = NullRecord
  /\ irrelevantInputMessage' = NullText
  /\ showSections' = AllCollapsed
  /\ IF productInput = <<>> /\ imageFile = "null"
     THEN /\ error' = Some(ErrMissingInput)
          /\ loading' = FALSE
          /\ lastEvent' = "missingInput"
          /\ UNCHANGED <<submitPc, request, response, outstanding>>
     ELSE /\ error' = error
          /\ loading' = TRUE
          /\ submitPc' = "awaiting"
          /\ request' = [productInput |-> productInput, imageFile |-> imageFile]
          /\ response' = NoResponse
          /\ outstanding' = outstanding + 1
          /\ lastEvent' = "submit"
  /\ UNCHANGED <<productInput, imageFile, previewVars, mounted, kept, pdfVars, parserVars>>

\* lines 214-229, and 247 on the early return: the button is enabled only
\* while the form is valid and nothing is loading (line 616)
SubmitStart ==
  /\ CanHandle
  /\ ~loading
  /\ IsFormValid
  /\ outstanding < MaxOutstanding
  /\ resultText' = NullText
  /\ parsedResult' = NullRecord
  /\ irrelevantInputMessage' = NullText
  /\ showSections' = AllCollapsed
  /\ IF productInput = <<>> /\ imageFile = "null"
     THEN /\ error' = Some(ErrMissingInput)
          /\ loading' = FALSE
          /\ lastEvent' = "missingInput"
          /\ UNCHANGED <<submitPc, request, response, outstanding>>
     ELSE /\ error' = NullText
          /\ loading' = TRUE
          /\ submitPc' = "awaiting"
          /\ request' = [productInput |-> productInput, imageFile |-> imageFile]
          /\ response' = NoResponse
          /\ outstanding' = outstanding + 1
          /\ lastEvent' = "submit"
  /\ UNCHANGED <<productInput, imageFile, previewVars, mounted, kept, pdfVars, parserVars>>

\* lines 229-235: the request resolves; the sentinel message is shown as it
\* is, any other text is handed to parseSustainabilityResult
SubmitResolve ==
  /\ mounted
  /\ submitPc = "awaiting"
  /\ outstanding' = outstanding - 1
  /\ \E text \in ResponseTexts, urls \in UrlLists :
       /\ response' = Some([text |-> text, groundingUrls |-> urls])
       /\ IF Trim(text) = Trim(IRRELEVANT_INPUT_MESSAGE)
          THEN /\ irrelevantInputMessage' = Some(text)
               /\ parsedResult' = NullRecord
               /\ loading' = FALSE
               /\ submitPc' = "idle"
               /\ lastEvent' = "sentinel"
               /\ UNCHANGED <<rawText, pc, ret>>
          ELSE /\ submitPc' = "parsing"
               /\ rawText' = text
               /\ pc' = "entry"
               /\ ret' = "pending"
               /\ lastEvent' = "resolved"
               /\ UNCHANGED <<irrelevantInputMessage, parsedResult, loading>>
  /\ UNCHANGED <<productInput, imageFile, resultText, error, showSections, request,
                 previewVars, mounted, kept, pdfVars,
                 lines, i, currentSection, ingredientDetailName, result>>

\* lines 235-241 and 247: the parse has returned; the citations are merged
\* into the record, and the text and the record (or null) are stored
SubmitParsed ==
  /\ submitPc = "parsing"
  /\ pc = "done"
  /\ resultText' = Some(response.value.text)
  /\ parsedResult' = IF ret = "record"
                     THEN Some([result EXCEPT !.groundingUrls = response.value.groundingUrls])
                     ELSE NullRecord
  /\ loading' = FALSE
  /\ submitPc' = "idle"
  /\ pc' = "idle"
  /\ lastEvent' = "parsed"
  /\ UNCHANGED <<productInput, imageFile, irrelevantInputMessage, error, showSections,
                 request, response, previewVars, mounted, outstanding, kept, pdfVars,
                 rawText, lines, i, currentSection, ingredientDetailName, result, ret>>

\* mutant of SubmitParseThrew: the record as far as it was filled is stored
SubmitParseThrewStoresRecord ==
  /\ submitPc = "parsing"
  /\ pc = "threw"
  /\ error' = Some(ErrFailed)
  /\ parsedResult' = Some(result)
  /\ loading' = FALSE
  /\ submitPc' = "idle"
  /\ pc' = "idle"
  /\ lastEvent' = "parseThrew"
  /\ UNCHANGED <<productInput, imageFile, resultText, irrelevantInputMessage,
                 showSections, request, response, previewVars, mounted, outstanding,
                 kept, pdfVars, rawText, lines, i, currentSection,
                 ingredientDetailName, result, ret>>

\* lines 243-247: the parse has thrown; the error is shown
SubmitParseThrew ==
  /\ submitPc = "parsing"
  /\ pc = "threw"
  /\ error' = Some(ErrFailed)
  /\ loading' = FALSE
  /\ submitPc' = "idle"
  /\ pc' = "idle"
  /\ lastEvent' = "parseThrew"
  /\ UNCHANGED <<productInput, imageFile, resultText, parsedResult, irrelevantInputMessage,
                 showSections, request, response, previewVars, mounted, outstanding,
                 kept, pdfVars, rawText, lines, i, currentSection,
                 ingredientDetailName, result, ret>>

\* lines 229 and 243-247: the request rejects; the error is shown
SubmitReject ==
  /\ mounted
  /\ submitPc = "awaiting"
  /\ error' = Some(ErrFailed)
  /\ loading' = FALSE
  /\ submitPc' = "idle"
  /\ outstanding' = outstanding - 1
  /\ lastEvent' = "rejected"
  /\ UNCHANGED <<productInput, imageFile, resultText, parsedResult, irrelevantInputMessage,
                 showSections, request, response, previewVars, mounted, kept, pdfVars,
                 parserVars>>

\* lines 148-154: the text area is never disabled (lines 518-526)
HandleTextChange ==
  /\ CanHandle
  /\ \E text \in InputTexts \ {productInput} : productInput' = text
  /\ resultText' = NullText
  /\ parsedResult' = NullRecord
  /\ irrelevantInputMessage' = NullText
  /\ error' = NullText
  /\ lastEvent' = "textChange"
  /\ UNCHANGED <<imageFile, loading, showSections, submitPc, request, response,
                 previewVars, mounted, outstanding, kept, pdfVars, parserVars>>

\* lines 156-172: the change event of the file input, with a file or with
\* none; the dialog is opened by buttons that are disabled while loading
\* (lines 549 and 597)
HandleImageChange ==
  /\ CanHandle
  /\ ~loading
  /\ \E file \in ImageFiles \cup {"null"} :
       IF file # "null"
       THEN /\ created < MaxUrls
            /\ imageFile' = file
            /\ created' = created + 1
            /\ previewUrl' = created + 1
            /\ revoked' = CleanupPreview(previewUrl, created + 1, Revoke(revoked, previewUrl))
            /\ resultText' = NullText
            /\ parsedResult' = NullRecord
            /\ irrelevantInputMessage' = NullText
            /\ error' = NullText
       ELSE /\ imageFile' = "null"
            /\ previewUrl' = 0
            /\ revoked' = CleanupPreview(previewUrl, 0, Revoke(revoked, previewUrl))
            /\ UNCHANGED <<created, resultText, parsedResult, irrelevantInputMessage, error>>
  /\ lastEvent' = "imageChange"
  /\ UNCHANGED <<productInput, loading, showSections, submitPc, request, response,
                 mounted, outstanding, kept, pdfVars, parserVars>>

\* lines 178-191: the button is there with an image, and disabled while
\* loading (lines 543 and 586)
HandleRemoveImage ==
  /\ CanHandle
  /\ ~loading
  /\ imageFile # "null"
  /\ imageFile' = "null"
  /\ previewUrl' = 0
  /\ revoked' = CleanupPreview(previewUrl, 0, Revoke(revoked, previewUrl))
  /\ resultText' = NullText
  /\ parsedResult' = NullRecord
  /\ irrelevantInputMessage' = NullText
  /\ error' = NullText
  /\ lastEvent' = "removeImage"
  /\ UNCHANGED <<productInput, loading, showSections, submitPc, request, response,
                 created, mounted, outstanding, kept, pdfVars, parserVars>>

\* mutant of HandleClearAll: the text is left as it is
HandleClearAllKeepText ==
  /\ CanHandle
  /\ ~loading
  /\ imageFile' = "null"
  /\ previewUrl' = 0
  /\ revoked' = CleanupPreview(previewUrl, 0, Revoke(revoked, previewUrl))
  /\ resultText' = NullText
  /\ parsedResult' = NullRecord
  /\ irrelevantInputMessage' = NullText
  /\ error' = NullText
  /\ showSections' = AllCollapsed
  /\ lastEvent' = "clearAll"
  /\ UNCHANGED <<productInput, loading, submitPc, request, response, created, mounted,
                 outstanding, kept, pdfVars, parserVars>>

\* lines 193-211: the button is disabled while loading (line 641)
HandleClearAll ==
  /\ CanHandle
  /\ ~loading
  /\ productInput' = <<>>
  /\ imageFile' = "null"
  /\ previewUrl' = 0
  /\ revoked' = CleanupPreview(previewUrl, 0, Revoke(revoked, previewUrl))
  /\ resultText' = NullText
  /\ parsedResult' = NullRecord
  /\ irrelevantInputMessage' = NullText
  /\ error' = NullText
  /\ showSections' = AllCollapsed
  /\ lastEvent' = "clearAll"
  /\ UNCHANGED <<loading, submitPc, request, response, created, mounted, outstanding,
                 kept, pdfVars, parserVars>>

\* line 446, for the buttons of lines 756-817: a section of the record on
\* display is opened or closed
ToggleSection ==
  /\ CanHandle
  /\ parsedResult.some
  /\ ~irrelevantInputMessage.some
  /\ \E section \in Sections :
       /\ parsedResult.value[section] # <<>>
       /\ showSections' = [showSections EXCEPT ![section] = ~@]
  /\ lastEvent' = "toggle"
  /\ UNCHANGED <<productInput, imageFile, loading, resultText, parsedResult,
                 irrelevantInputMessage, error, submitPc, request, response, previewVars,
                 mounted, outstanding, kept, pdfVars, parserVars>>

\* lines 131-138: the component is torn down and the cleanup of the effect
\* runs; what a request that settles later sets is dropped by React
Unmount ==
  /\ CanHandle
  /\ mounted' = FALSE
  /\ revoked' = CleanupPreview(previewUrl, 0, revoked)
  /\ lastEvent' = "unmount"
  /\ UNCHANGED <<productInput, imageFile, loading, resultText, parsedResult,
                 irrelevantInputMessage, error, showSections, submitPc, request, response,
                 previewUrl, created, outstanding, kept, pdfVars, parserVars>>

\* no call of parseSustainabilityResult has been made
ParserIdle ==
  /\ rawText = <<>>
  /\ pc = "idle"
  /\ lines = <<>>
  /\ i = 0
  /\ currentSection = NoSection
  /\ ingredientDetailName = <<>>
  /\ result = EmptyResult
  /\ ret = "pending"

\* lines 114-126: the component as it is mounted
InitUi ==
  /\ UiInit(<<>>, "null")
  /\ ParserIdle
  /\ kept = NothingKept
  /\ PdfIdle

NextUi ==
  \/ SubmitStart
  \/ SubmitResolve
  \/ SubmitReject
  \/ Enter
  \/ ScanLine
  \/ Return
  \/ SubmitParsed
  \/ SubmitParseThrew
  \/ HandleTextChange
  \/ HandleImageChange
  \/ HandleRemoveImage
  \/ HandleClearAll
  \/ ToggleSection
  \/ Unmount

SpecUi == InitUi /\ [][NextUi]_vars

----------------------------------------------------------------------------
(* generatePdfReport, src/App.tsx lines 251-436.  Every doc.text call is   *)
(* logged in placed with its position, its page and the width of the text  *)
(* as drawn.  Lengths are in millimetres, except the cursor y, which is in *)
(* half millimetres.                                                       *)

\* lines 255-258
initialY == 10

margin == 10

lineHeight == 7

sectionSpacing == 10

\* lines 254 and 259: new jsPDF() is a portrait A4 page in millimetres
pageHeight == 297

pageWidth == 210

\* line 260
textWidth == pageWidth - 2 * margin

\* millimetres as half millimetres
Mm(n) == 2 * n

\* the width every word of an input is drawn with
WordWidth == 20

\* doc.getTextWidth on one atom at the 12 point font (18 for the title): about
\* two millimetres a character for the literals of the report
AtomWidth(a) ==
  CASE a \in {" ", "-", ":"} -> 1
    [] a \in Glyphs -> 5
    [] a = "Sustainability Check Result" -> 86
    [] a = "Overall Verdict" -> 30
    [] a = "Greenwashing Risk" -> 34
    [] a = "Claims that failed to meet expectations" -> 78
    [] a = "Why these claims failed" -> 46
    [] a = "Ingredients to note" -> 38
    [] a = "More details" -> 24
    [] a = "Ingredient-specific details" -> 54
    [] a = "Improvement suggestions" -> 46
    [] a = "Source Information" -> 36
    [] a = "None" -> 9
    [] a = "All claims appear reasonable or are well-supported by ingredients." -> 130
    [] OTHER -> WordWidth

\* doc.getTextWidth
RECURSIVE getTextWidth(_)
getTextWidth(s) ==
  IF s = <<>> THEN 0 ELSE AtomWidth(Head(s)) + getTextWidth(Tail(s))

\* doc.splitTextToSize on one paragraph: words go on the line while they fit
RECURSIVE FillLines(_, _, _)
FillLines(words, line, maxWidth) ==
  IF words = <<>> THEN <<line>>
  ELSE LET w == Head(words)
           longer == IF line = <<>> THEN w ELSE line \o <<" ">> \o w
       IN IF line # <<>> /\ getTextWidth(longer) > maxWidth
          THEN <<line>> \o FillLines(Tail(words), w, maxWidth)
          ELSE FillLines(Tail(words), longer, maxWidth)

RECURSIVE WrapParagraphs(_, _)
WrapParagraphs(paragraphs, maxWidth) ==
  IF paragraphs = <<>> THEN <<>>
  ELSE FillLines(Split(Head(paragraphs), " "), <<>>, maxWidth)
         \o WrapParagraphs(Tail(paragraphs), maxWidth)

\* doc.splitTextToSize (lines 359 and 384): the text is cut at its line breaks
\* and each paragraph is wrapped to maxWidth
splitTextToSize(text, maxWidth) == WrapParagraphs(Split(text, "\n"), maxWidth)

\* the literals of the report
TitleText == <<"Sustainability Check Result">>

LblSourceInformation == <<"Source Information", ":">>

FallbackNone == <<"None">>

FallbackAllReasonable ==
  <<"All claims appear reasonable or are well-supported by ingredients.">>

\* the records rendered
ShortListLen == 2

LongListLen == 33

ParagraphWords == 40

ManyIngredients == 18

ManySources == 3

\* n distinct words with single spaces between them
RECURSIVE Sentence(_)
Sentence(n) ==
  IF n = 0 THEN <<>>
  ELSE IF n = 1 THEN <<ToString(1)>>
  ELSE Sentence(n - 1) \o <<" ", ToString(n)>>

\* a bulleted entry as the parser stores it: the k-th entry, every third one as
\* long as a line of a response may be
EntryText(k) ==
  IF k % 3 = 2 THEN <<"entry", " ", ToString(k), " ">> \o Sentence(9)
  ELSE <<"entry", " ", ToString(k)>>

ListOf(n) == [k \in 1..n |-> EntryText(k)]

ListLens == {0, ShortListLen, LongListLen}

\* the k-th ingredient, with an explanation of one, two or three wrapped lines
IngredientOf(k) ==
  [name |-> <<"ingredient", " ", ToString(k)>>,
   explanation |-> Sentence(1 + 8 * (k % 3))]

IngredientsOf(n) == [k \in 1..n |-> IngredientOf(k)]

SourceOf(k) ==
  [uri |-> <<"https://", ToString(k)>>,
   title |-> IF k % 2 = 0 THEN <<>> ELSE <<"title", " ", ToString(k)>>]

SourcesOf(n) == [k \in 1..n |-> SourceOf(k)]

Paragraphs ==
  {<<>>, Sentence(3), Sentence(3) \o NL \o Sentence(12), Sentence(ParagraphWords)}

PdfRecords ==
  {[icon |-> <<GREEN_CHECK>>,
    overallVerdict |-> <<"Low", " ", "Risk">>,
    greenwashingRisk |-> <<"Low">>,
    claimsFailed |-> ListOf(c),
    whyClaimsFailed |-> ListOf(w),
    ingredientsToNote |-> ListOf(n),
    moreDetails |-> m,
    ingredientSpecificDetails |-> IngredientsOf(d),
    improvementSuggestions |-> ListOf(s),
    groundingUrls |-> SourcesOf(u)] :
   c \in ListLens, w \in {0, ShortListLen}, n \in ListLens, m \in Paragraphs,
   d \in {0, 2, ManyIngredients}, s \in {0, ShortListLen}, u \in {0, ManySources}}

\* the record being rendered: the component's parsedResult
report == parsedResult.value

\* a doc.text call: what is drawn, where, and how wide it comes out
Placement(block, kind, text, x, at, onPage) ==
  [block |-> block, kind |-> kind, text |-> text, x |-> x, y |-> at,
   page |-> onPage, width |-> getTextWidth(text)]

\* lines 290, 313, 336, 361, 378, 386, 405, 422: the text of the given height does not
\* fit above the bottom margin
NeedsPage(height) == y + Mm(height) > Mm(pageHeight - margin)

\* lines 291-292: doc.addPage() and y = margin when the check asks for it
CursorFor(height) == IF NeedsPage(height) THEN Mm(margin) ELSE y

PageFor(height) == IF NeedsPage(height) THEN page + 1 ELSE page

\* the blocks in the order of the code
ListBlocks == {"claims", "why", "notes"}

BulletBlocks == ListBlocks \cup {"improvements"}

ListField(block) ==
  CASE block = "claims" -> report.claimsFailed
    [] block = "why" -> report.whyClaimsFailed
    [] block = "notes" -> report.ingredientsToNote
    [] block = "improvements" -> report.improvementSuggestions

ListLabel(block) ==
  CASE block = "claims" -> HdrClaimsFailed
    [] block = "why" -> HdrWhyClaimsFailed
    [] block = "notes" -> HdrIngredientsToNote
    [] block = "improvements" -> HdrImprovementSuggestions

ListFallback(block) ==
  CASE block = "claims" -> FallbackNone
    [] block = "why" -> FallbackAllReasonable
    [] block = "notes" -> FallbackNone

\* mutant of BlockAfter: the ingredients to note come before the reasons
BlockAfterNotesFirst(block) ==
  CASE block = "header" -> "verdict"
    [] block = "verdict" -> "risk"
    [] block = "risk" -> "claims"
    [] block = "claims" -> "notes"
    [] block = "notes" -> "why"
    [] block = "why" -> "moreDetails"
    [] block = "moreDetails" -> "ingredients"
    [] block = "ingredients" -> "improvements"
    [] block = "improvements" -> "sources"
    [] block = "sources" -> "save"

BlockAfter(block) ==
  CASE block = "header" -> "verdict"
    [] block = "verdict" -> "risk"
    [] block = "risk" -> "claims"
    [] block = "claims" -> "why"
    [] block = "why" -> "notes"
    [] block = "notes" -> "moreDetails"
    [] block = "moreDetails" -> "ingredients"
    [] block = "ingredients" -> "improvements"
    [] block = "improvements" -> "sources"
    [] block = "sources" -> "save"

\* mutant of GeneratePdfReport: the document is begun without a look at
\* parsedResult
GeneratePdfReportUnguarded ==
  /\ pdfPc \in {"idle", "returned", "saved"}
  /\ pdfPc' = "header"
  /\ y' = Mm(initialY)
  /\ page' = 1
  /\ placed' = <<>>
  /\ idx' = 0
  /\ splitText' = <<>>
  /\ sub' = 0
  /\ saved' = 0
  /\ UNCHANGED <<parserVars, kept, uiVars>>

\* lines 251-260: the call returns at once when there is no record (line 252);
\* otherwise a new document is begun, on every call
GeneratePdfReport ==
  /\ pdfPc \in {"idle", "returned", "saved"}
  /\ IF ~parsedResult.some
     THEN /\ pdfPc' = "returned"
          /\ UNCHANGED <<y, page, placed, idx, splitText, sub, saved>>
     ELSE /\ pdfPc' = "header"
          /\ y' = Mm(initialY)
          /\ page' = 1
          /\ placed' = <<>>
          /\ idx' = 0
          /\ splitText' = <<>>
          /\ sub' = 0
          /\ saved' = 0
  /\ UNCHANGED <<parserVars, kept, uiVars>>

\* lines 262-266
PlaceHeader ==
  /\ pdfPc = "header"
  /\ placed' = Append(placed, Placement("header", "header",
                        report.icon \o <<" ">> \o TitleText, margin, y, page))
  /\ y' = y + Mm(lineHeight * 2)
  /\ pdfPc' = BlockAfter(pdfPc)
  /\ UNCHANGED <<page, idx, splitText, sub, saved, parserVars, kept, uiVars>>

\* lines 268-274
PlaceVerdict ==
  /\ pdfPc = "verdict"
  /\ placed' = placed \o
       <<Placement("verdict", "label", HdrOverallVerdict, margin, y, page),
         Placement("verdict", "value", report.overallVerdict,
                   margin + getTextWidth(HdrOverallVerdict \o <<" ">>), y, page)>>
  /\ y' = y + Mm(lineHeight)
  /\ pdfPc' = BlockAfter(pdfPc)
  /\ UNCHANGED <<page, idx, splitText, sub, saved, parserVars, kept, uiVars>>

\* lines 276-281
PlaceRisk ==
  /\ pdfPc = "risk"
  /\ placed' = placed \o
       <<Placement("risk", "label", HdrGreenwashingRisk, margin, y, page),
         Placement("risk", "value", report.greenwashingRisk,
                   margin + getTextWidth(HdrGreenwashingRisk \o <<" ">>), y, page)>>
  /\ y' = y + Mm(lineHeight + sectionSpacing)
  /\ pdfPc' = BlockAfter(pdfPc)
  /\ UNCHANGED <<page, idx, splitText, sub, saved, parserVars, kept, uiVars>>

\* mutant of PlaceListLabel: an empty list gets its label and nothing else
PlaceListLabelNoFallback ==
  /\ pdfPc \in ListBlocks
  /\ idx = 0
  /\ placed' = Append(placed, Placement(pdfPc, "label", ListLabel(pdfPc), margin, y, page))
  /\ IF Len(ListField(pdfPc)) > 0
     THEN /\ y' = y + Mm(lineHeight)
          /\ idx' = 1
          /\ UNCHANGED pdfPc
     ELSE /\ y' = y + Mm(lineHeight + sectionSpacing)
          /\ pdfPc' = BlockAfter(pdfPc)
          /\ UNCHANGED idx
  /\ UNCHANGED <<page, splitText, sub, saved, parserVars, kept, uiVars>>

\* lines 284-287 and 298-303 (claims), 307-310 and 321-326 (why), 330-333 and
\* 344-349 (notes): the label, and for an empty list its fallback beside it
PlaceListLabel ==
  /\ pdfPc \in ListBlocks
  /\ idx = 0
  /\ IF Len(ListField(pdfPc)) > 0
     THEN /\ placed' = Append(placed,
                         Placement(pdfPc, "label", ListLabel(pdfPc), margin, y, page))
          /\ y' = y + Mm(lineHeight)
          /\ idx' = 1
          /\ UNCHANGED pdfPc
     ELSE /\ placed' = placed \o
               <<Placement(pdfPc, "label", ListLabel(pdfPc), margin, y, page),
                 Placement(pdfPc, "fallback", ListFallback(pdfPc),
                           margin + getTextWidth(ListLabel(pdfPc) \o <<" ">>) + 2, y, page)>>
          /\ y' = y + Mm(lineHeight + sectionSpacing)
          /\ pdfPc' = BlockAfter(pdfPc)
          /\ UNCHANGED idx
  /\ UNCHANGED <<page, splitText, sub, saved, parserVars, kept, uiVars>>

\* lines 289-297, 312-320, 335-343 and 404-412: one turn of the forEach over a
\* list, and the section spacing after its last turn
PlaceBullet ==
  /\ pdfPc \in BulletBlocks
  /\ idx >= 1
  /\ LET last == idx = Len(ListField(pdfPc))
     IN /\ placed' = Append(placed,
                       Placement(pdfPc, "bullet", BULLET \o ListField(pdfPc)[idx],
                                 margin + 5, CursorFor(lineHeight), PageFor(lineHeight)))
        /\ page' = PageFor(lineHeight)
        /\ y' = CursorFor(lineHeight) + Mm(lineHeight)
                  + (IF last THEN Mm(sectionSpacing) ELSE 0)
        /\ idx' = IF last THEN 0 ELSE idx + 1
        /\ pdfPc' = IF last THEN BlockAfter(pdfPc) ELSE pdfPc
  /\ UNCHANGED <<splitText, sub, saved, parserVars, kept, uiVars>>

\* lines 354-359: the label and the wrapping of the paragraph, or nothing
PlaceMoreDetailsLabel ==
  /\ pdfPc = "moreDetails"
  /\ sub = 0
  /\ IF report.moreDetails # <<>>
     THEN /\ placed' = Append(placed,
                         Placement(pdfPc, "label", HdrMoreDetails, margin, y, page))
          /\ y' = y + Mm(lineHeight)
          /\ splitText' = splitTextToSize(report.moreDetails, textWidth)
          /\ sub' = 1
          /\ UNCHANGED pdfPc
     ELSE /\ pdfPc' = BlockAfter(pdfPc)
          /\ UNCHANGED <<placed, y, splitText, sub>>
  /\ UNCHANGED <<page, idx, saved, parserVars, kept, uiVars>>

\* mutant of PlaceMoreDetailsLine: the line on which the page breaks is lost
PlaceMoreDetailsLineLostAtBreak ==
  /\ pdfPc = "moreDetails"
  /\ sub >= 1
  /\ LET last == sub = Len(splitText)
     IN /\ placed' = IF NeedsPage(lineHeight) THEN placed
                      ELSE Append(placed,
                             Placement(pdfPc, "line", splitText[sub], margin, y, page))
        /\ page' = PageFor(lineHeight)
        /\ y' = CursorFor(lineHeight) + Mm(lineHeight)
                  + (IF last THEN Mm(sectionSpacing) ELSE 0)
        /\ sub' = IF last THEN 0 ELSE sub + 1
        /\ splitText' = IF last THEN <<>> ELSE splitText
        /\ pdfPc' = IF last THEN BlockAfter(pdfPc) ELSE pdfPc
  /\ UNCHANGED <<idx, saved, parserVars, kept, uiVars>>

\* lines 360-368: one turn of the forEach over the wrapped lines
PlaceMoreDetailsLine ==
  /\ pdfPc = "moreDetails"
  /\ sub >= 1
  /\ LET last == sub = Len(splitText)
     IN /\ placed' = Append(placed,
                       Placement(pdfPc, "line", splitText[sub], margin,
                                 CursorFor(lineHeight), PageFor(lineHeight)))
        /\ page' = PageFor(lineHeight)
        /\ y' = CursorFor(lineHeight) + Mm(lineHeight)
                  + (IF last THEN Mm(sectionSpacing) ELSE 0)
        /\ sub' = IF last THEN 0 ELSE sub + 1
        /\ splitText' = IF last THEN <<>> ELSE splitText
        /\ pdfPc' = IF last THEN BlockAfter(pdfPc) ELSE pdfPc
  /\ UNCHANGED <<idx, saved, parserVars, kept, uiVars>>

\* lines 372-375, 399-402 and 416-419: the label of a block that is left
\* out when its list is empty
OptionalLabel(block, label, list) ==
  /\ pdfPc = block
  /\ idx = 0
  /\ IF Len(list) > 0
     THEN /\ placed' = Append(placed, Placement(block, "label", label, margin, y, page))
          /\ y' = y + Mm(lineHeight)
          /\ idx' = 1
          /\ UNCHANGED pdfPc
     ELSE /\ pdfPc' = BlockAfter(block)
          /\ UNCHANGED <<placed, y, idx>>
  /\ UNCHANGED <<page, splitText, sub, saved, parserVars, kept, uiVars>>

\* lines 372-375
PlaceIngredientsLabel ==
  /\ pdfPc = "ingredients"
  /\ OptionalLabel("ingredients", HdrIngredientSpecificDetails, report.ingredientSpecificDetails)

\* mutant of PlaceIngredientName: the check before the name allows for the
\* name alone
PlaceIngredientNameOneLine ==
  /\ pdfPc = "ingredients"
  /\ idx >= 1
  /\ sub = 0
  /\ LET item == report.ingredientSpecificDetails[idx]
     IN /\ placed' = Append(placed,
                       Placement(pdfPc, "name", item.name \o COLON, margin + 5,
                                 CursorFor(lineHeight), PageFor(lineHeight)))
        /\ page' = PageFor(lineHeight)
        /\ y' = CursorFor(lineHeight) + Mm(lineHeight)
        /\ splitText' = splitTextToSize(item.explanation, textWidth - 10)
        /\ sub' = 1
  /\ UNCHANGED <<pdfPc, idx, saved, parserVars, kept, uiVars>>

\* lines 377-384: the check for the name and one line, the name, and the
\* wrapping of the explanation
PlaceIngredientName ==
  /\ pdfPc = "ingredients"
  /\ idx >= 1
  /\ sub = 0
  /\ LET item == report.ingredientSpecificDetails[idx]
     IN /\ placed' = Append(placed,
                       Placement(pdfPc, "name", item.name \o COLON, margin + 5,
                                 CursorFor(lineHeight * 2), PageFor(lineHeight * 2)))
        /\ page' = PageFor(lineHeight * 2)
        /\ y' = CursorFor(lineHeight * 2) + Mm(lineHeight)
        /\ splitText' = splitTextToSize(item.explanation, textWidth - 10)
        /\ sub' = 1
  /\ UNCHANGED <<pdfPc, idx, saved, parserVars, kept, uiVars>>

\* lines 385-395: one turn of the forEach over the lines of the explanation,
\* the half line after the last of them and the spacing after the last entry
PlaceExplanationLine ==
  /\ pdfPc = "ingredients"
  /\ sub >= 1
  /\ LET lastLine == sub = Len(splitText)
         lastItem == lastLine /\ idx = Len(report.ingredientSpecificDetails)
     IN /\ placed' = Append(placed,
                       Placement(pdfPc, "explanation", splitText[sub], margin + 10,
                                 CursorFor(lineHeight), PageFor(lineHeight)))
        /\ page' = PageFor(lineHeight)
        /\ y' = CursorFor(lineHeight) + Mm(lineHeight)
                  + (IF lastLine THEN Mm(lineHeight) \div 2 ELSE 0)
                  + (IF lastItem THEN Mm(sectionSpacing) ELSE 0)
        /\ sub' = IF lastLine THEN 0 ELSE sub + 1
        /\ splitText' = IF lastLine THEN <<>> ELSE splitText
        /\ idx' = IF lastItem THEN 0 ELSE IF lastLine THEN idx + 1 ELSE idx
        /\ pdfPc' = IF lastItem THEN BlockAfter(pdfPc) ELSE pdfPc
  /\ UNCHANGED <<saved, parserVars, kept, uiVars>>

\* lines 399-402
PlaceImprovementsLabel ==
  /\ pdfPc = "improvements"
  /\ OptionalLabel("improvements", HdrImprovementSuggestions, report.improvementSuggestions)

\* lines 416-419
PlaceSourcesLabel ==
  /\ pdfPc = "sources"
  /\ OptionalLabel("sources", LblSourceInformation, report.groundingUrls)

\* lines 421-432: one turn of the forEach over the citations: the title, or
\* the address when there is no title, and the link half a line below
PlaceSource ==
  /\ pdfPc = "sources"
  /\ idx >= 1
  /\ LET url == report.groundingUrls[idx]
         last == idx = Len(report.groundingUrls)
         at == CursorFor(lineHeight * 2)
     IN /\ placed' = placed \o
             <<Placement(pdfPc, "title", IF url.title # <<>> THEN url.title ELSE url.uri,
                         margin + 5, at, PageFor(lineHeight * 2)),
               Placement(pdfPc, "link", url.uri, margin + 5,
                         at + Mm(lineHeight) \div 2, PageFor(lineHeight * 2))>>
        /\ page' = PageFor(lineHeight * 2)
        /\ y' = at + Mm(lineHeight * 2) + (IF last THEN Mm(sectionSpacing) ELSE 0)
        /\ idx' = IF last THEN 0 ELSE idx + 1
        /\ pdfPc' = IF last THEN BlockAfter(pdfPc) ELSE pdfPc
  /\ UNCHANGED <<splitText, sub, saved, parserVars, kept, uiVars>>

\* line 435
Save ==
  /\ pdfPc = "save"
  /\ saved' = saved + 1
  /\ pdfPc' = "saved"
  /\ UNCHANGED <<y, page, placed, idx, splitText, sub, parserVars, kept, uiVars>>

\* a record on display, or none, and nothing else going on
InitPdf ==
  /\ parsedResult \in {NullRecord} \cup {Some(r) : r \in PdfRecords}
  /\ productInput = <<"Water">>
  /\ imageFile = "null"
  /\ loading = FALSE
  /\ resultText = IF parsedResult.some THEN Some(<<>>) ELSE NullText
  /\ irrelevantInputMessage = NullText
  /\ error = NullText
  /\ showSections = AllCollapsed
  /\ submitPc = "idle"
  /\ request = NoRequest
  /\ response = NoResponse
  /\ previewUrl = 0
  /\ created = 0
  /\ revoked = [u \in 1..MaxUrls |-> 0]
  /\ mounted = TRUE
  /\ outstanding = 0
  /\ lastEvent = "none"
  /\ ParserIdle
  /\ kept = NothingKept
  /\ PdfIdle

NextPdf ==
  \/ GeneratePdfReport
  \/ PlaceHeader
  \/ PlaceVerdict
  \/ PlaceRisk
  \/ PlaceListLabel
  \/ PlaceBullet
  \/ PlaceMoreDetailsLabel
  \/ PlaceMoreDetailsLine
  \/ PlaceIngredientsLabel
  \/ PlaceIngredientName
  \/ PlaceExplanationLine
  \/ PlaceImprovementsLabel
  \/ PlaceSourcesLabel
  \/ PlaceSource
  \/ Save

SpecPdf == InitPdf /\ [][NextPdf]_vars

----------------------------------------------------------------------------
(* The response text as the specification describes it: which lines the    *)
(* scan reads, and which section is open when it reads them.  These are    *)
(* stated on rawText alone, independently of the scan's variables.         *)

TextLines == Split(rawText, "\n")

NumLines == Len(TextLines)

\* line k of the text (from 1), trimmed
TextLine(k) == Trim(TextLines[k])

IsSingleValueHeader(l) ==
  StartsWith(l, HdrOverallVerdict) \/ StartsWith(l, HdrGreenwashingRisk)

ListHeaders ==
  {HdrClaimsFailed, HdrWhyClaimsFailed, HdrIngredientsToNote, HdrMoreDetails,
   HdrIngredientSpecificDetails, HdrImprovementSuggestions}

IsListHeader(l) == \E h \in ListHeaders : StartsWith(l, h)

IsHeader(l) == IsSingleValueHeader(l) \/ IsListHeader(l)

StartsWithGlyph(l) == l # <<>> /\ l[1] \in Glyphs

\* Scanned[k]: line k is read by the scan, that is, it is not the value line
\* of a single-value header read on the line before it
Scanned ==
  LET f[k \in 1..NumLines] ==
        IF k = 1 THEN TRUE
        ELSE ~(f[k - 1] /\ IsSingleValueHeader(TextLine(k - 1)))
  IN f

\* the parse has ended, by a return or by an exception
Ended == pc \in {"done", "threw"}

Returned == pc = "done" /\ ret = "record"

----------------------------------------------------------------------------
(* Claims *)

\* C1: if a line starting with "Overall Verdict:" or "Greenwashing Risk:" is
\* read as the last line of the input, the parse does not throw: it returns a
\* record whose corresponding field is the empty string.
C1_HeaderOnLastLineIsSafe ==
  (Ended /\ rawText # <<>> /\ Scanned[NumLines]
     /\ IsSingleValueHeader(TextLine(NumLines)))
    => /\ Returned
       /\ StartsWith(TextLine(NumLines), HdrOverallVerdict) => result.overallVerdict = <<>>
       /\ StartsWith(TextLine(NumLines), HdrGreenwashingRisk) => result.greenwashingRisk = <<>>

\* C2: for the empty text and for a text that, trimmed, equals the trimmed
\* sentinel message, the parse returns null and scans no line.
C2_EmptyAndSentinelReturnNull ==
  (pc # "entry" /\ (rawText = <<>> \/ Trim(rawText) = Trim(IRRELEVANT_INPUT_MESSAGE)))
    => /\ pc = "done"
       /\ ret = "null"
       /\ i = 0
       /\ lines = <<>>
       /\ result = EmptyResult

\* reached: the sentinel message with white space around it has returned null
C2_Witness ==
  /\ pc = "done"
  /\ ret = "null"
  /\ rawText # IRRELEVANT_INPUT_MESSAGE
  /\ Trim(rawText) = IRRELEVANT_INPUT_MESSAGE

\* C3: for a non-empty text of white space only the parse returns null, as it
\* does for the empty text.
C3_WhitespaceReturnsNull ==
  (pc # "entry" /\ rawText # <<>> /\ Trim(rawText) = <<>>)
    => (pc = "done" /\ ret = "null")

\* C4 as claimed: whenever the text has a line "Overall Verdict:" directly
\* followed by a line V, the returned record has overallVerdict = V trimmed,
\* whatever and wherever the other lines are.
C4_VerdictAnywhere ==
  Returned =>
    \A k \in 1..(NumLines - 1) :
      TextLine(k) = HdrOverallVerdict => result.overallVerdict = TextLine(k + 1)

\* the header line k is read by the scan and is the last "Overall Verdict:"
\* header the scan reads
IsDecidingVerdictHeader(k) ==
  /\ Scanned[k]
  /\ \A j \in (k + 1)..NumLines :
       ~(Scanned[j] /\ StartsWith(TextLine(j), HdrOverallVerdict))

\* C4 amended: the returned record has overallVerdict = V trimmed when the
\* line "Overall Verdict:" before V is read by the scan (it is not itself the
\* value line of a single-value header on the line before it) and no later
\* line that the scan reads starts with "Overall Verdict:".
C4_LastScannedVerdictWins ==
  Returned =>
    \A k \in 1..(NumLines - 1) :
      (TextLine(k) = HdrOverallVerdict /\ IsDecidingVerdictHeader(k))
        => result.overallVerdict = TextLine(k + 1)

\* reached: "Overall Verdict:" on line 2 or later decided the verdict "Low Risk",
\* with another "Overall Verdict:" header earlier in the text
C4_Witness ==
  /\ Returned
  /\ result.overallVerdict = <<"Low", " ", "Risk">>
  /\ \E k \in 2..(NumLines - 1) :
       /\ TextLine(k) = HdrOverallVerdict
       /\ IsDecidingVerdictHeader(k)
       /\ \E j \in 1..(k - 1) : TextLine(j) = HdrOverallVerdict

BulletedSections ==
  {"claimsFailed", "whyClaimsFailed", "ingredientsToNote", "improvementSuggestions"}

\* the scan is about to read a line that is neither an icon line nor a header
\* and that no header before it consumes: a line of section content
ReadsContentLine ==
  /\ pc = "loop"
  /\ i < Len(lines)
  /\ ~StartsWithGlyph(Trim(lines[i + 1]))
  /\ ~IsHeader(Trim(lines[i + 1]))

\* the line the scan is about to read, trimmed
CurrentLine == Trim(lines[i + 1])

\* C5: while the cursor is a bulleted section, a content line starting with
\* "- " appends the trimmed text after "- " to that section's list and changes no
\* other field; any other content line changes no field; neither moves the cursor.
C5_BulletsAppendInOrder ==
  [][(ReadsContentLine /\ currentSection \in BulletedSections)
       => /\ currentSection' = currentSection
          /\ pc' = pc
          /\ IF StartsWith(CurrentLine, BULLET)
             THEN result' = [result EXCEPT
                               ![currentSection] = Append(@, Trim(Substring(CurrentLine, 2)))]
             ELSE result' = result]_vars

\* reached: "Claims that failed to meet expectations:", "- A", a plain line and
\* "-  B " have been read, and claimsFailed is <<"A", "B">>, the other lists empty
C5_Witness ==
  /\ Returned
  /\ NumLines = 4
  /\ TextLine(3) = LnPlain
  /\ result.claimsFailed = << <<"A">>, <<"B">> >>
  /\ result.whyClaimsFailed = <<>>
  /\ result.ingredientsToNote = <<>>
  /\ result.improvementSuggestions = <<>>

\* the effect of the return on the explanations: each is trimmed
ExplanationsTrimmed ==
  (pc = "loop" /\ pc' = "done")
    => /\ Len(result'.ingredientSpecificDetails) = Len(result.ingredientSpecificDetails)
       /\ \A k \in 1..Len(result.ingredientSpecificDetails) :
            /\ result'.ingredientSpecificDetails[k].name = result.ingredientSpecificDetails[k].name
            /\ result'.ingredientSpecificDetails[k].explanation =
                 Trim(result.ingredientSpecificDetails[k].explanation)

\* the entries with line l, a newline after it, appended to the last explanation
WithExplanationLine(entries, l) ==
  [entries EXCEPT ![Len(entries)].explanation = @ \o l \o NL]

\* C6 as claimed: while the cursor is ingredientSpecificDetails, a content line
\* ending with ":" with a non-empty name appends the entry {name, ""}; every
\* non-empty content line not ending with ":" that follows an entry is appended
\* to the explanation of the most recently started entry; the return trims each
\* explanation.
C6_EveryLineExplainsLastEntry ==
  [][/\ (ReadsContentLine /\ currentSection = "ingredientSpecificDetails")
          => LET name == Trim(SliceDropLast(CurrentLine))
                 entries == result.ingredientSpecificDetails
             IN IF EndsWith(CurrentLine, COLON)
                THEN name # <<>> =>
                       result' = [result EXCEPT !.ingredientSpecificDetails =
                                    Append(@, [name |-> name, explanation |-> <<>>])]
                ELSE (CurrentLine # <<>> /\ entries # <<>>) =>
                       result' = [result EXCEPT !.ingredientSpecificDetails =
                                    WithExplanationLine(entries, CurrentLine)]
     /\ ExplanationsTrimmed]_vars

\* C6 amended: while the cursor is ingredientSpecificDetails, a content line
\* (neither icon line nor header) ending with ":" with a non-empty name appends
\* the entry {name, ""}, and one with an empty name appends nothing; a non-empty
\* content line not ending with ":" is appended to the explanation of the most
\* recently started entry as long as an entry name is active (the last such ":"
\* line named an entry), and is dropped otherwise; the return trims each
\* explanation, keeping its internal newlines.
C6_LinesExplainActiveEntry ==
  [][/\ (ReadsContentLine /\ currentSection = "ingredientSpecificDetails")
          => LET name == Trim(SliceDropLast(CurrentLine))
                 entries == result.ingredientSpecificDetails
             IN IF EndsWith(CurrentLine, COLON)
                THEN /\ ingredientDetailName' = name
                     /\ IF name # <<>>
                        THEN result' = [result EXCEPT !.ingredientSpecificDetails =
                                          Append(@, [name |-> name, explanation |-> <<>>])]
                        ELSE result' = result
                ELSE /\ ingredientDetailName' = ingredientDetailName
                     /\ IF CurrentLine # <<>> /\ ingredientDetailName # <<>>
                        THEN /\ entries # <<>>
                             /\ result' = [result EXCEPT !.ingredientSpecificDetails =
                                             WithExplanationLine(entries, CurrentLine)]
                        ELSE result' = result
     /\ ExplanationsTrimmed]_vars

\* reached: "Ingredient-specific details:", "Paraben:", "Synthetic", " More" has
\* returned the single entry {Paraben, "Synthetic\nMore"}
C6_Witness ==
  /\ Returned
  /\ result.ingredientSpecificDetails =
       << [name |-> <<"Paraben">>, explanation |-> <<"Synthetic", "\n", "More">>] >>

\* CursorBefore[k]: the section open when the scan reaches line k
CursorBefore ==
  LET f[k \in 1..NumLines] ==
        IF k = 1 THEN NoSection
        ELSE LET l == TextLine(k - 1)
             IN IF ~Scanned[k - 1] \/ StartsWithGlyph(l) THEN f[k - 1]
                ELSE IF IsSingleValueHeader(l) THEN NoSection
                ELSE IF StartsWith(l, HdrClaimsFailed) THEN "claimsFailed"
                ELSE IF StartsWith(l, HdrWhyClaimsFailed) THEN "whyClaimsFailed"
                ELSE IF StartsWith(l, HdrIngredientsToNote) THEN "ingredientsToNote"
                ELSE IF StartsWith(l, HdrMoreDetails) THEN "moreDetails"
                ELSE IF StartsWith(l, HdrIngredientSpecificDetails) THEN "ingredientSpecificDetails"
                ELSE IF StartsWith(l, HdrImprovementSuggestions) THEN "improvementSuggestions"
                ELSE f[k - 1]
  IN f

\* the non-empty lines read while the cursor is moreDetails that are no
\* headers, in input order, with or without those beginning with a glyph
RECURSIVE DetailLinesFrom(_, _)
DetailLinesFrom(k, withIconLines) ==
  IF k > NumLines THEN <<>>
  ELSE (IF /\ Scanned[k]
           /\ CursorBefore[k] = "moreDetails"
           /\ TextLine(k) # <<>>
           /\ ~IsHeader(TextLine(k))
           /\ (withIconLines \/ ~StartsWithGlyph(TextLine(k)))
        THEN <<TextLine(k)>> ELSE <<>>)
       \o DetailLinesFrom(k + 1, withIconLines)

\* C7 as claimed: the returned moreDetails is every non-empty line read while
\* the cursor was moreDetails, those beginning with a glyph included, joined by
\* newlines in input order.
C7_DetailsKeepIconLines ==
  Returned => result.moreDetails = JoinLines(DetailLinesFrom(1, TRUE))

\* C7 amended: the returned moreDetails is every non-empty line read while the
\* cursor was moreDetails that is neither a header nor begins with a glyph,
\* joined by newlines in input order; a line beginning with a glyph sets icon
\* and is not appended.
C7_DetailsDropIconLines ==
  Returned => result.moreDetails = JoinLines(DetailLinesFrom(1, FALSE))

\* reached: two lines were appended to moreDetails around an icon line that
\* was not
C7_Witness ==
  /\ Returned
  /\ NumLines = 4
  /\ TextLine(1) = HdrMoreDetails
  /\ TextLine(3) = LnIcon
  /\ result.moreDetails = <<"Synthetic", "\n", "More">>
  /\ result.icon = <<RED_CROSS>>

\* C8: icon is always the empty string or exactly one of the three glyphs,
\* also when the icon line has characters directly after its glyph.
C8_IconIsGlyphOrEmpty ==
  result.icon = <<>> \/ \E g \in Glyphs : result.icon = <<g>>

\* an icon line whose glyph is followed by a space or by the end of the line
IsSpacedIconLine(l) == StartsWithGlyph(l) /\ (Len(l) = 1 \/ l[2] = " ")

IsDecidingIconLine(k) ==
  /\ Scanned[k]
  /\ \A j \in (k + 1)..NumLines : ~(Scanned[j] /\ StartsWithGlyph(TextLine(j)))

FieldHeader ==
  [overallVerdict |-> HdrOverallVerdict,
   greenwashingRisk |-> HdrGreenwashingRisk,
   claimsFailed |-> HdrClaimsFailed,
   whyClaimsFailed |-> HdrWhyClaimsFailed,
   ingredientsToNote |-> HdrIngredientsToNote,
   moreDetails |-> HdrMoreDetails,
   ingredientSpecificDetails |-> HdrIngredientSpecificDetails,
   improvementSuggestions |-> HdrImprovementSuggestions]

\* no line of the text starts with the header of field (for icon: with a glyph)
HeaderAbsent(field) ==
  LET ls == TextLines
  IN \A k \in 1..Len(ls) :
       IF field = "icon" THEN ~StartsWithGlyph(Trim(ls[k]))
       ELSE ~StartsWith(Trim(ls[k]), FieldHeader[field])

ResultFields ==
  {"icon", "overallVerdict", "greenwashingRisk", "claimsFailed", "whyClaimsFailed",
   "ingredientsToNote", "moreDetails", "ingredientSpecificDetails",
   "improvementSuggestions", "groundingUrls"}

\* C10: a field whose header is on no line of the text keeps its default empty
\* value throughout the parse; a missing header never makes the parse fail (a
\* text with no header at all, other than the empty text and the sentinel
\* message, returns a record); and a returned record has all its fields.
C10_MissingHeaderLeavesDefault ==
  /\ \A field \in DOMAIN FieldHeader \cup {"icon"} :
       HeaderAbsent(field) => result[field] = <<>>
  /\ (/\ Ended
      /\ rawText # <<>>
      /\ Trim(rawText) # Trim(IRRELEVANT_INPUT_MESSAGE)
      /\ \A field \in DOMAIN FieldHeader : HeaderAbsent(field))
       => Returned
  /\ Returned => DOMAIN result = ResultFields

\* reached: a record was returned for a text with content lines and a header,
\* in which the headers of overallVerdict, claimsFailed and icon are missing
C10_Witness ==
  /\ Returned
  /\ NumLines = 3
  /\ HeaderAbsent("icon")
  /\ HeaderAbsent("overallVerdict")
  /\ HeaderAbsent("claimsFailed")
  /\ ~HeaderAbsent("whyClaimsFailed")
  /\ result.whyClaimsFailed = << <<"A">> >>
  /\ result.claimsFailed = <<>>
  /\ result.overallVerdict = <<>>
  /\ result.icon = <<>>

\* the section the list header at the start of line l opens
SectionOpenedBy(l) ==
  IF StartsWith(l, HdrClaimsFailed) THEN "claimsFailed"
  ELSE IF StartsWith(l, HdrWhyClaimsFailed) THEN "whyClaimsFailed"
  ELSE IF StartsWith(l, HdrIngredientsToNote) THEN "ingredientsToNote"
  ELSE IF StartsWith(l, HdrMoreDetails) THEN "moreDetails"
  ELSE IF StartsWith(l, HdrIngredientSpecificDetails) THEN "ingredientSpecificDetails"
  ELSE "improvementSuggestions"

\* C11: in an iteration of the scan the cursor changes only when the line read
\* starts with a section header: a single-value header resets it to none, a list
\* header sets it to its section; an icon line, a bullet, a blank line and an
\* unrecognized line leave it as it is.
C11_CursorMovesOnlyOnHeaders ==
  [][(pc = "loop" /\ i < Len(lines))
       => IF StartsWithGlyph(CurrentLine) THEN currentSection' = currentSection
          ELSE IF IsSingleValueHeader(CurrentLine)
          THEN pc' = "loop" => currentSection' = NoSection
          ELSE IF IsListHeader(CurrentLine)
          THEN currentSection' = SectionOpenedBy(CurrentLine)
          ELSE currentSection' = currentSection]_vars

\* reached: the cursor set by "Claims that failed to meet expectations:" is
\* still claimsFailed after an icon line and a blank line were read
C11_Witness ==
  /\ pc = "loop"
  /\ i = 3
  /\ TextLine(1) = HdrClaimsFailed
  /\ TextLine(2) = LnIcon
  /\ TextLine(3) = <<>>
  /\ currentSection = "claimsFailed"

\* C12: every returned record has groundingUrls equal to the empty list; no
\* line of the text adds a grounding URL at any point of the scan.
C12_GroundingUrlsStayEmpty ==
  pc \in {"loop", "done"} => result.groundingUrls = <<>>

\* reached: a record with a filled improvementSuggestions list and no
\* grounding URL was returned
C12_Witness ==
  /\ Returned
  /\ result.improvementSuggestions = << <<"A">>, <<"B">> >>
  /\ result.groundingUrls = <<>>

\* C13: a call on a text gives what an earlier call on the same text gave,
\* whatever texts were parsed in between: the same record, null both times, or
\* the exception both times.
C13_SameTextSameOutcome ==
  (pc \in {"done", "threw"} /\ kept.held /\ kept.text = rawText)
    => CallOutcome = kept.outcome

\* reached: a text with a named entry was parsed a second time, after a call
\* that left a different cursor state, and returned the record the caller holds
C13_Witness ==
  /\ Returned
  /\ kept.held
  /\ kept.text = rawText
  /\ kept.outcome.kind = "record"
  /\ Len(result.ingredientSpecificDetails) = 1
  /\ Len(lines) = 2

\* the parse of text returns null: the text is empty or, trimmed, the sentinel
ParsesToNull(text) == text = <<>> \/ Trim(text) = Trim(IRRELEVANT_INPUT_MESSAGE)

\* C14: a submission that settles with a response whose parse returns null
\* (the empty text or the sentinel message) leaves irrelevantInputMessage
\* non-null, parsedResult null and error null.
C14_NullParseShowsIrrelevantInput ==
  [][(submitPc # "idle" /\ submitPc' = "idle"
        /\ response'.some /\ ParsesToNull(response'.value.text))
       => /\ irrelevantInputMessage'.some
          /\ ~parsedResult'.some
          /\ ~error'.some]_vars

----------------------------------------------------------------------------
(* generatePdfReport: what is claimed of the texts it places *)

\* the lowest cursor, in half millimetres, at which a line still fits above
\* the bottom margin
LowestCursor == Mm(pageHeight - margin - lineHeight)

\* C15: no text of the report is placed at a cursor y with
\* y + lineHeight > pageHeight - margin: the page-break check comes before
\* every placement, the header, the label/value pairs and the section labels
\* included.
C15_EveryPlacementFitsThePage ==
  \A k \in 1..Len(placed) : placed[k].y <= LowestCursor

\* the positions of generatePdfReport in the order the claims give the blocks
BlockOrder ==
  <<"header", "verdict", "risk", "claims", "why", "notes", "moreDetails",
    "ingredients", "improvements", "sources", "save", "saved">>

Rank(block) == CHOOSE k \in 1..Len(BlockOrder) : BlockOrder[k] = block

\* the report is being generated and is past the given block
BlockDone(block) == pdfPc \notin {"idle", "returned"} /\ Rank(pdfPc) > Rank(block)

\* the texts placed for the given block, in the order of placement
BlockPlacements(block) == SelectSeq(placed, LAMBDA p : p.block = block)

\* the block of a list section is as C16 has it
ListSectionAsClaimed(block, label, list, fallback) ==
  LET ps == BlockPlacements(block)
  IN /\ Len(ps) >= 1
     /\ ps[1].kind = "label"
     /\ ps[1].text = label
     /\ IF list = <<>>
        THEN /\ Len(ps) = 2
             /\ ps[2].kind = "fallback"
             /\ ps[2].text = fallback
        ELSE /\ Len(ps) = 1 + Len(list)
             /\ \A k \in 1..Len(list) :
                  /\ ps[k + 1].kind = "bullet"
                  /\ ps[k + 1].text = <<"-", " ">> \o list[k]

\* C16: for each of the three list sections, an empty list gets the section
\* label and exactly one fallback literal and no bullet; a non-empty list gets
\* the label, one bullet per entry in list order, and no fallback.
C16_ListSectionsFallbackOrBullets ==
  /\ BlockDone("claims") =>
       ListSectionAsClaimed("claims", <<"Claims that failed to meet expectations", ":">>,
                            parsedResult.value.claimsFailed, <<"None">>)
  /\ BlockDone("why") =>
       ListSectionAsClaimed("why", <<"Why these claims failed", ":">>,
                            parsedResult.value.whyClaimsFailed,
                            <<"All claims appear reasonable or are well-supported by ingredients.">>)
  /\ BlockDone("notes") =>
       ListSectionAsClaimed("notes", <<"Ingredients to note", ":">>,
                            parsedResult.value.ingredientsToNote, <<"None">>)

\* a report is saved that had an empty list, a list of many entries that ran
\* over the page, and a short list
C16_Witness ==
  /\ pdfPc = "saved"
  /\ parsedResult.value.claimsFailed = <<>>
  /\ Len(parsedResult.value.whyClaimsFailed) = ShortListLen
  /\ Len(parsedResult.value.ingredientsToNote) = LongListLen
  /\ \E k \in 1..Len(placed) : placed[k].block = "notes" /\ placed[k].page = 2

\* the ten blocks of the report, in the order C17 gives them
ReportBlocks == SubSeq(BlockOrder, 1, 10)

\* the block is in the document if and only if it is to be there
BlockPresentIff(block, present) ==
  BlockDone(block) => ((BlockPlacements(block) # <<>>) <=> present)

\* the texts placed so far, by block: in the fixed order, each block in one
\* piece with one heading, none ahead of the position of the code
BlocksInOrder ==
  /\ \A k \in 1..Len(placed) :
       /\ \E b \in 1..Len(ReportBlocks) : ReportBlocks[b] = placed[k].block
       /\ pdfPc \notin {"idle", "returned"} /\ Rank(placed[k].block) <= Rank(pdfPc)
       /\ k > 1 => Rank(placed[k - 1].block) <= Rank(placed[k].block)
  /\ \A b \in 1..Len(ReportBlocks) :
       Cardinality({k \in 1..Len(placed) :
                      /\ placed[k].block = ReportBlocks[b]
                      /\ placed[k].kind \in {"header", "label"}}) <= 1

\* C17: the blocks are emitted in one fixed order (header, overall verdict,
\* greenwashing risk, claims failed, why claims failed, ingredients to note,
\* more details, ingredient-specific details, improvement suggestions, source
\* information) and then saved once; the first six are always emitted, the
\* last four if and only if their field is non-empty; no block is emitted
\* twice, and nothing is emitted after the save.
C17_FixedBlockOrderThenOneSave ==
  /\ [](/\ BlocksInOrder
        /\ \A b \in 1..6 : BlockPresentIff(ReportBlocks[b], TRUE)
        /\ BlockPresentIff("moreDetails", parsedResult.value.moreDetails # <<>>)
        /\ BlockPresentIff("ingredients", parsedResult.value.ingredientSpecificDetails # <<>>)
        /\ BlockPresentIff("improvements", parsedResult.value.improvementSuggestions # <<>>)
        /\ BlockPresentIff("sources", parsedResult.value.groundingUrls # <<>>)
        /\ saved = (IF pdfPc = "saved" THEN 1 ELSE 0))
  /\ [][saved = 1 /\ saved' = 1 => placed' = placed]_vars

\* a report is saved without its more details and its improvement suggestions,
\* and with its ingredient-specific details and its sources
C17_Witness ==
  /\ pdfPc = "saved"
  /\ saved = 1
  /\ parsedResult.value.moreDetails = <<>>
  /\ parsedResult.value.ingredientSpecificDetails # <<>>
  /\ parsedResult.value.improvementSuggestions = <<>>
  /\ parsedResult.value.groundingUrls # <<>>
  /\ \E k \in 1..Len(placed) : placed[k].block = "sources"

\* the words of a text, in order: what is left of it when white space is
\* normalised away
WordsOf(text) == SelectSeq(text, LAMBDA a : a \notin WhiteSpace)

\* the texts joined by single spaces
RECURSIVE JoinBySpaces(_)
JoinBySpaces(texts) ==
  IF texts = <<>> THEN <<>>
  ELSE IF Len(texts) = 1 THEN texts[1]
  ELSE texts[1] \o <<" ">> \o JoinBySpaces(Tail(texts))

\* the wrapped lines of moreDetails placed in the document
MoreDetailsLines ==
  SelectSeq(placed, LAMBDA p : p.block = "moreDetails" /\ p.kind = "line")

\* the texts of the given placements
TextsPlaced(ps) == [k \in 1..Len(ps) |-> ps[k].text]

\* each placement is further down the page than the one before it, or on the
\* page after it
PlacedInReadingOrder(ps) ==
  \A k \in 1..(Len(ps) - 1) :
    \/ ps[k + 1].page = ps[k].page /\ ps[k + 1].y > ps[k].y
    \/ ps[k + 1].page = ps[k].page + 1

C19_NameStaysWithFirstLine ==
  \A k \in 1..(Len(placed) - 1) :
    placed[k].kind = "name" =>
      /\ placed[k + 1].kind = "explanation"
      /\ placed[k + 1].page = placed[k].page
      /\ placed[k + 1].y = placed[k].y + Mm(lineHeight)

\* an entry began a new page although its name alone still fitted under the
\* entry before it, and its first line of explanation followed it there
C19_Witness ==
  \E k \in 2..(Len(placed) - 1) :
    /\ placed[k].kind = "name"
    /\ placed[k - 1].kind = "explanation"
    /\ placed[k].page = placed[k - 1].page + 1
    /\ placed[k].y = Mm(margin)
    /\ placed[k - 1].y + Mm(lineHeight) + Mm(lineHeight) \div 2 <= LowestCursor
    /\ placed[k + 1].kind = "explanation"

\* C20: every text placed has been wrapped to the width left for it: no placed
\* line, the bullets of the four list sections, the verdict and risk values
\* and the fallbacks included, reaches beyond the right margin from its x.
C20_EveryPlacementFitsTheWidth ==
  \A k \in 1..Len(placed) : placed[k].x + placed[k].width <= pageWidth - margin

\* C21: generatePdfReport called while parsedResult is null does nothing: no
\* document is begun, no text is placed and nothing is saved, and the call
\* has returned.
C21_NoRecordNoDocument ==
  ~parsedResult.some =>
    /\ pdfPc \in {"idle", "returned"}
    /\ page = 0
    /\ placed = <<>>
    /\ saved = 0

\* the call was made with no record and has returned
C21_Witness == ~parsedResult.some /\ pdfPc = "returned"

----------------------------------------------------------------------------
(* The component: what is claimed of its handlers *)

\* C22: at most one request is outstanding at any time: a call of
\* checkSustainability starts only while loading is false and none is
\* outstanding, and loading is true from then until the request has settled
\* and its response has been dealt with.
C22_OneRequestAtATime ==
  /\ [](/\ outstanding <= 1
        /\ (outstanding = 1 \/ submitPc # "idle") => loading
        /\ ~(outstanding = 1 /\ submitPc = "parsing"))
  /\ [][outstanding' > outstanding => (~loading /\ outstanding = 0 /\ loading')]_vars

\* a request is outstanding, the text has been edited meanwhile and the form
\* is valid: only loading keeps the button disabled
C22_Witness ==
  /\ outstanding = 1
  /\ loading
  /\ submitPc = "awaiting"
  /\ request.productInput # productInput
  /\ Trim(productInput) # <<>>

\* the continuation of handleSubmit that ran last has settled the submission
Settled == lastEvent \in {"missingInput", "sentinel", "parsed", "parseThrew", "rejected"}

\* C23: a submission that settles, however it does, leaves the UI idle and
\* resubmittable (loading false, nothing outstanding); when the request has
\* rejected or the parse has thrown, error is non-null and parsedResult is
\* null.
C23_SettledMeansIdle ==
  /\ Settled => (~loading /\ submitPc = "idle" /\ outstanding = 0)
  /\ lastEvent \in {"parseThrew", "rejected"} => (error.some /\ ~parsedResult.some)

\* the parse of a response threw with part of the record filled in
C23_Witness ==
  /\ lastEvent = "parseThrew"
  /\ result # EmptyResult
  /\ response.some

\* C24: URL.revokeObjectURL is never called a second time for the same
\* preview URL, over any sequence of replacement, removal, clear-all and
\* teardown.
C24_RevokedAtMostOnce ==
  \A url \in 1..MaxUrls : revoked[url] <= 1

\* C25: no preview URL leaks: every URL created that is not the current
\* previewUrl has been revoked, and after teardown every URL created has
\* been revoked.
C25_NoPreviewUrlLeaks ==
  /\ \A url \in 1..created : url # previewUrl => revoked[url] >= 1
  /\ ~mounted => \A url \in 1..created : revoked[url] >= 1

\* the component was torn down with a preview on display that had replaced
\* an earlier one
C25_Witness ==
  /\ ~mounted
  /\ created >= 2
  /\ previewUrl = created
  /\ revoked[created] >= 1

\* C28: at most one of parsedResult, irrelevantInputMessage and error is
\* non-null in every state of the component, under any interleaving of the
\* handlers with a submission.
C28_OneOutcomeOnDisplay ==
  Cardinality({shown \in {"parsedResult", "irrelevantInputMessage", "error"} :
                 CASE shown = "parsedResult" -> parsedResult.some
                   [] shown = "irrelevantInputMessage" -> irrelevantInputMessage.some
                   [] shown = "error" -> error.some}) <= 1

\* a record is on display from a request during which the text was edited
C28_Witness ==
  /\ parsedResult.some
  /\ lastEvent = "parsed"
  /\ request.productInput # productInput

\* C29: a record on display is never stale: whenever parsedResult is
\* non-null, the request whose response it was parsed from was made with the
\* current productInput and imageFile.
C29_ResultMatchesInputs ==
  parsedResult.some =>
    /\ request.productInput = productInput
    /\ request.imageFile = imageFile

\* C30: after handleClearAll the state is the initial one: the text empty,
\* image, preview, result, record, notice and error null, the four sections
\* closed, loading false, and every preview URL created before revoked.
C30_ClearAllRestoresInitialState ==
  lastEvent = "clearAll" =>
    /\ productInput = <<>>
    /\ imageFile = "null"
    /\ previewUrl = 0
    /\ ~resultText.some
    /\ ~parsedResult.some
    /\ ~irrelevantInputMessage.some
    /\ ~error.some
    /\ \A section \in DOMAIN showSections : ~showSections[section]
    /\ ~loading
    /\ \A url \in 1..created : revoked[url] >= 1

\* everything was cleared after a submission with a text and an image had
\* been answered
C30_Witness ==
  /\ lastEvent = "clearAll"
  /\ created >= 1
  /\ response.some
  /\ request.productInput # <<>>
  /\ request.imageFile # "null"

----------------------------------------------------------------------------
(* parseSustainabilityResult: the entries without a name, and the pass *)

\* line k is read as content of the section of ingredient-specific details
\* and ends with ":"
IsNameLine(k) ==
  /\ Scanned[k]
  /\ CursorBefore[k] = "ingredientSpecificDetails"
  /\ ~StartsWithGlyph(TextLine(k))
  /\ ~IsHeader(TextLine(k))
  /\ TextLine(k) # <<>>
  /\ TextLine(k)[Len(TextLine(k))] = ":"

\* the text before the ":" of line k
NameOf(k) == Trim(SubSeq(TextLine(k), 1, Len(TextLine(k)) - 1))

\* no entry is active when the scan reaches line k: no name line has been
\* read yet, or the last one read had no name
NoActiveEntry(k) ==
  \/ \A j \in 1..(k - 1) : ~IsNameLine(j)
  \/ \E j \in 1..(k - 1) :
       /\ IsNameLine(j)
       /\ NameOf(j) = <<>>
       /\ \A h \in (j + 1)..(k - 1) : ~IsNameLine(h)

\* C27: while the cursor is ingredientSpecificDetails, a line ending with ":"
\* with nothing before the colon adds no entry, and from it on the lines that
\* do not end with ":" are dropped, the record unchanged, until a line with
\* a name starts a new entry; so are the lines before the first entry.
C27_NamelessLineDeactivatesEntry ==
  [][(ReadsContentLine /\ currentSection = "ingredientSpecificDetails")
       => /\ (IsNameLine(i + 1) /\ NameOf(i + 1) = <<>>) => result' = result
          /\ (~IsNameLine(i + 1) /\ NoActiveEntry(i + 1)) => result' = result]_vars

\* reached: "Ingredient-specific details:", "Paraben:", ":", "Synthetic" has
\* returned the entry Paraben with an empty explanation
C27_Witness ==
  /\ Returned
  /\ NumLines = 4
  /\ TextLine(2) = LnIngredient
  /\ TextLine(3) = LnNoName
  /\ TextLine(4) = LnExplanation
  /\ result.ingredientSpecificDetails = << [name |-> <<"Paraben">>, explanation |-> <<>>] >>

\* the field a single-value header line sets
ValueFieldOf(l) ==
  IF SubSeq(l, 1, Len(HdrOverallVerdict)) = HdrOverallVerdict
  THEN "overallVerdict" ELSE "greenwashingRisk"

\* C26: the parse is one forward pass that ends: the line index grows with
\* every step of the loop; the loop reads exactly the lines that are not the
\* value of a single-value header read on the line before, and such a header
\* takes the next line as its value, trimmed and whatever it is, closes the
\* open section and passes over that line, which has no other effect; the
\* pass ends with every line behind it.
C26_SingleForwardPass ==
  /\ [](/\ pc = "loop" => (lines = TextLines /\ i <= NumLines)
        /\ (pc = "loop" /\ i < NumLines) => Scanned[i + 1]
        /\ Returned => i = NumLines)
  /\ [][(pc = "loop" /\ i < NumLines)
          => /\ i' > i
             /\ LET l == TextLine(i + 1)
                IN IF ~StartsWithGlyph(l) /\ IsSingleValueHeader(l)
                   THEN IF i + 2 <= NumLines
                        THEN /\ i' = i + 2
                             /\ pc' = "loop"
                             /\ result' = [result EXCEPT ![ValueFieldOf(l)] = TextLine(i + 2)]
                             /\ currentSection' = NoSection
                             /\ ingredientDetailName' = ingredientDetailName
                        ELSE pc' = "threw"
                   ELSE i' = i + 1 /\ pc' = "loop"]_vars
  /\ <>Ended

\* reached: "Overall Verdict:", "Claims that failed to meet expectations:",
\* "- A" has returned the header of the claims as the verdict, and no claim
C26_Witness ==
  /\ Returned
  /\ NumLines = 3
  /\ TextLine(1) = HdrOverallVerdict
  /\ TextLine(2) = HdrClaimsFailed
  /\ TextLine(3) = LnBulletA
  /\ result.overallVerdict = HdrClaimsFailed
  /\ result.claimsFailed = <<>>
  /\ i = 3

====
